---- MODULE Spec2Model ----
(***************************************************************************)
(* The adaptive vertex-load probe of src/src/app/app.component.ts          *)
(* (AppComponent).  Frame times are integers in units of 0.01 ms, so the   *)
(* 16.67 ms budget is 1667; a mean is kept as an exact fraction num/den.   *)
(* Text is a sequence of tokens: one token per printed line, and a token   *)
(* for every line break.                                                   *)
(***************************************************************************)
EXTENDS Integers, Sequences, FiniteSets, TLC

\* ---------------------------------------------------------------- bounds
\* animate() invocations explored (60 baseline frames, then a load window
\* that fills and evicts).
MaxTicks == 124
\* animate() invocations explored after the test has stopped.
MaxStoppedTicks == 2
\* How often the measured frame cost may differ from the previous frame's.
MaxCostChanges == 1
\* Render submissions that may throw.
MaxRenderFailures == 1
\* copyResults() calls explored.
MaxCopies == 2
\* animate() invocations explored beside the copy button and failing renders.
MaxHostTicks == 63
\* animate() invocations explored under a cost that only rises (60 baseline
\* frames, a load window filled within budget, and 60 frames over it).
MaxOverloadTicks == 181

\* The frame costs the renderer may show: 10.00 ms and 23.34 ms lie at the
\* same distance on either side of the budget, so a window holding as many
\* of one as of the other averages exactly 16.67 ms.
Costs == {1000, 2334}
\* The cost a renderer that slows down rises to: 16.68 ms is the least cost
\* over the budget.
OverloadCosts == {1668}

\* ------------------------------------------------------ program constants
maxFrameTime == 1667
BaselineFrames == 60
WindowCapacity == 60
InitialVertexCount == 1000
VertexStep == 1000

\* --------------------------------------------------------------- helpers
RECURSIVE Sum(_)
Sum(s) == IF s = << >> THEN 0 ELSE Head(s) + Sum(Tail(s))

\* a.reduce((x, y) => x + y, 0) / a.length, as an exact fraction.
Mean(a) == [num |-> Sum(a), den |-> Len(a)]

\* f > m for a fraction f with a positive denominator and an integer m.
FracGreater(f, m) == f.num > m * f.den

\* What toFixed prints for 0 / 0 ("NaN") and for 1000 / 0 ("Infinity").
NotANumber == -1
Infinite == -2

\* Number.prototype.toFixed(2) of a time: the nearest 0.01, a tie upwards.
toFixed2(f) ==
    IF f.den = 0 THEN NotANumber ELSE (2 * f.num + f.den) \div (2 * f.den)

\* (1000 / avg).toFixed(1): frames per second in tenths.
FpsFixed1(f) ==
    IF f.den = 0 THEN NotANumber
    ELSE IF f.num = 0 THEN Infinite
    ELSE (2 * 1000000 * f.den + f.num) \div (2 * f.num)

\* Number.prototype.toLocaleString(): the groups of three digits.
RECURSIVE toLocaleString(_)
toLocaleString(n) ==
    IF n < 1000 THEN << n >> ELSE toLocaleString(n \div 1000) \o << n % 1000 >>

\* One token of text.
Token(kind, vertices, baseline, avg, fps) ==
    [kind |-> kind, vertices |-> vertices, baseline |-> baseline,
     avg |-> avg, fps |-> fps]
Word(kind) == Token(kind, << >>, 0, 0, 0)
NL == Word("\n")

\* Array.prototype.join('\n') of strings.
RECURSIVE Join(_)
Join(ls) ==
    IF ls = << >> THEN << >>
    ELSE IF Len(ls) = 1 THEN ls[1]
    ELSE ls[1] \o << NL >> \o Join(Tail(ls))

InitialStatus == << Word("Initializing...") >>
CopiedNotice == << NL, NL, Word("Copied to clipboard!") >>
FailedNotice == << NL, NL, Word("Failed to copy. Please try manually selecting the text.") >>

BaselineReport(vertexCount, baseline) ==
    << Word("=== Baseline Performance ==="), NL,
       Token("Testing with", toLocaleString(vertexCount), 0, 0, 0), NL,
       Token("Baseline", << >>, toFixed2(baseline), 0, 0), NL,
       Word("=== Performance Testing ===") >>

FinalReport(vertexCount, baseline, avg) ==
    << Word("=== Test Results ==="), NL,
       Token("Final", toLocaleString(vertexCount), toFixed2(baseline),
             toFixed2(avg), FpsFixed1(avg)) >>

ProgressReport(vertexCount, baseline, avg) ==
    << Token("Current", toLocaleString(vertexCount), toFixed2(baseline),
             toFixed2(avg), FpsFixed1(avg)) >>

\* The meshes: the baseline cube and a test mesh of n vertices.
Cube == [kind |-> "cube", vertexCount |-> 0]
createTestMesh(n) == [kind |-> "test", vertexCount |-> n]

\* ------------------------------------------------------ the test geometry
\* The numbers of createTestMesh are fixed-point, Scale units to 1: a
\* product, a quotient or a square root is rounded to the nearest unit, as
\* a store into a Float32Array rounds to the nearest float.
Scale == 100
MaxVertices == 3

RoundDiv(a, b) == (2 * a + b) \div (2 * b)
Times(a, b) == RoundDiv(a * b, Scale)
Divide(a, b) == RoundDiv(a * Scale, b)
\* Math.sqrt of a sum of products of two fixed-point numbers.
Sqrt(s) ==
    IF s = 0 THEN 0
    ELSE CHOOSE r \in 1..(2 * Scale) :
             /\ (2 * r - 1) * (2 * r - 1) < 4 * s
             /\ 4 * s < (2 * r + 1) * (2 * r + 1)

\* The angles the two Math.random() draws can give, each as its sine and
\* cosine: theta in [0, 2 pi), and phi = acos(2 random - 1) in (0, pi],
\* whose sine is never negative.
Thetas ==
    { [sin |-> 0, cos |-> 100], [sin |-> 17, cos |-> 98],
      [sin |-> -60, cos |-> 80] }
Phis ==
    { [sin |-> 0, cos |-> -100], [sin |-> 100, cos |-> 0],
      [sin |-> 60, cos |-> 80] }

\* new Float32Array(length), new Uint32Array(length): all zero.
TypedArray(length) == [j \in 0..(length - 1) |-> 0]
BufferAttribute(array, itemSize) == [array |-> array, itemSize |-> itemSize]
NoAttribute == BufferAttribute(TypedArray(0), 0)

\* No call of createTestMesh is in progress.
NoCall ==
    [pc |-> "idle", vertexCount |-> 0, i |-> 0, positions |-> TypedArray(0),
     normals |-> TypedArray(0), indices |-> TypedArray(0),
     position |-> NoAttribute, normal |-> NoAttribute, index |-> NoAttribute]

\* createTestMesh(vertexCount) up to its loop: the three arrays.
allocate(vertexCount) ==
    [pc |-> "loop", vertexCount |-> vertexCount, i |-> 0,
     positions |-> TypedArray(vertexCount * 3),
     normals |-> TypedArray(vertexCount * 3),
     indices |-> TypedArray(vertexCount),
     position |-> NoAttribute, normal |-> NoAttribute, index |-> NoAttribute]

\* One pass of the loop, for the angles theta and phi.
createVertexUnnormalised(g, theta, phi) ==
    LET i == g.i
        radius == Scale
        positions == [g.positions EXCEPT
                         ![i * 3] = Times(Times(radius, phi.sin), theta.cos),
                         ![i * 3 + 1] = Times(Times(radius, phi.sin), theta.sin),
                         ![i * 3 + 2] = Times(radius, phi.cos)]
    IN  [g EXCEPT !.positions = positions,
                  !.normals = [g.normals EXCEPT
                                  ![i * 3] = positions[i * 3],
                                  ![i * 3 + 1] = positions[i * 3 + 1],
                                  ![i * 3 + 2] = positions[i * 3 + 2]],
                  !.indices = [g.indices EXCEPT ![i] = i],
                  !.i = i + 1]

createVertex(g, theta, phi) ==
    LET i == g.i
        radius == Scale
        positions == [g.positions EXCEPT
                         ![i * 3] = Times(Times(radius, phi.sin), theta.cos),
                         ![i * 3 + 1] = Times(Times(radius, phi.sin), theta.sin),
                         ![i * 3 + 2] = Times(radius, phi.cos)]
        length == Sqrt(positions[i * 3] * positions[i * 3]
                       + positions[i * 3 + 1] * positions[i * 3 + 1]
                       + positions[i * 3 + 2] * positions[i * 3 + 2])
    IN  [g EXCEPT !.positions = positions,
                  !.normals = [g.normals EXCEPT
                                  ![i * 3] = Divide(positions[i * 3], length),
                                  ![i * 3 + 1] =
                                      Divide(positions[i * 3 + 1], length),
                                  ![i * 3 + 2] =
                                      Divide(positions[i * 3 + 2], length)],
                  !.indices = [g.indices EXCEPT ![i] = i],
                  !.i = i + 1]

\* After the loop: the arrays become the attributes and the index of the
\* geometry of the mesh that is returned.
setAttributes(g) ==
    [g EXCEPT !.pc = "returned",
              !.position = BufferAttribute(g.positions, 3),
              !.normal = BufferAttribute(g.normals, 3),
              !.index = BufferAttribute(g.indices, 1)]

\* ----------------------------------------------------------------- state
VARIABLES
    viewInit,             \* ngAfterViewInit has run
    rafPending,           \* a requestAnimationFrame callback is scheduled
    scene,                \* the meshes in the scene, in the order added
    disposed,             \* the meshes whose geometry and material are disposed
    testMeshes,
    currentVertexCount,
    baselineFrameTime,
    frameTimes,
    isMeasuringBaseline,
    isTestStopped,
    baselineMeasurements,
    logs,
    statusText,
    ticks,                \* animate() invocations
    stoppedTicks,         \* those that found the test stopped
    renders,              \* renderer.render() calls
    renderFailures,       \* those that threw
    lastCost,             \* the cost of the last frame the renderer drew
    costChanges,          \* how often that cost has changed
    measured,             \* the cost of every frame that was timed, in order
    writes,               \* clipboard writes in flight: the text of each
    timers,               \* pending restore timers: the originalText of each
    clipboard,
    copies,               \* copyResults() calls
    geometry              \* the call of createTestMesh that is followed

compVars == << scene, disposed, testMeshes, currentVertexCount,
               baselineFrameTime, frameTimes, isMeasuringBaseline,
               isTestStopped, baselineMeasurements, logs, statusText, renders >>
loopVars == << viewInit, rafPending, ticks, stoppedTicks, renderFailures >>
envVars == << lastCost, costChanges, measured >>
copyVars == << writes, timers, clipboard, copies >>
vars == << compVars, loopVars, envVars, copyVars, geometry >>

\* The component's fields as one value, for the methods below.
This ==
    [scene |-> scene, disposed |-> disposed, testMeshes |-> testMeshes,
     currentVertexCount |-> currentVertexCount,
     baselineFrameTime |-> baselineFrameTime, frameTimes |-> frameTimes,
     isMeasuringBaseline |-> isMeasuringBaseline,
     isTestStopped |-> isTestStopped,
     baselineMeasurements |-> baselineMeasurements,
     logs |-> logs, statusText |-> statusText, renders |-> renders]

Becomes(c) ==
    /\ scene' = c.scene
    /\ disposed' = c.disposed
    /\ testMeshes' = c.testMeshes
    /\ currentVertexCount' = c.currentVertexCount
    /\ baselineFrameTime' = c.baselineFrameTime
    /\ frameTimes' = c.frameTimes
    /\ isMeasuringBaseline' = c.isMeasuringBaseline
    /\ isTestStopped' = c.isTestStopped
    /\ baselineMeasurements' = c.baselineMeasurements
    /\ logs' = c.logs
    /\ statusText' = c.statusText
    /\ renders' = c.renders

\* --------------------------------------------------------------- methods
updateStatusOverwrites(c, text) ==
    [c EXCEPT !.logs = << text >>, !.statusText = text]
updateStatus(c, text) ==
    LET pushed == Append(c.logs, text)
    IN  [c EXCEPT !.logs = pushed, !.statusText = Join(pushed)]

createTestEnvironment(c) ==
    [c EXCEPT !.scene = Append(@, Cube), !.testMeshes = Append(@, Cube)]

addTestMeshOfOldCount(c) ==
    LET mesh == createTestMesh(c.currentVertexCount - VertexStep)
    IN  [c EXCEPT !.scene = Append(@, mesh), !.testMeshes = Append(@, mesh)]
addTestMesh(c) ==
    LET mesh == createTestMesh(c.currentVertexCount)
    IN  [c EXCEPT !.scene = Append(@, mesh), !.testMeshes = Append(@, mesh)]

\* scene.remove(mesh): the scene without that mesh.
SceneRemove(s, mesh) == SelectSeq(s, LAMBDA m : m # mesh)

RECURSIVE cleanupMeshesRemovesCube(_)
cleanupMeshesRemovesCube(c) ==
    IF Len(c.testMeshes) > 0
    THEN LET mesh == c.testMeshes[Len(c.testMeshes)]
         IN  cleanupMeshesRemovesCube(
                 [c EXCEPT !.testMeshes = SubSeq(@, 1, Len(@) - 1),
                           !.scene = SceneRemove(@, mesh),
                           !.disposed = @ \cup {mesh}])
    ELSE c
RECURSIVE cleanupMeshes(_)
cleanupMeshes(c) ==
    IF Len(c.testMeshes) > 1
    THEN LET mesh == c.testMeshes[Len(c.testMeshes)]
         IN  cleanupMeshes(
                 [c EXCEPT !.testMeshes = SubSeq(@, 1, Len(@) - 1),
                           !.scene = SceneRemove(@, mesh),
                           !.disposed = @ \cup {mesh}])
    ELSE c

\* renderer.render(scene, camera), returning normally.
render(c) == [c EXCEPT !.renders = @ + 1]

\* if (this.baselineMeasurements.length >= 60)
BaselineCompleteLate(n) == n > BaselineFrames
BaselineComplete(n) == n >= BaselineFrames

\* The body of that if: the baseline is fixed and the stepping begins.
completeBaselineKeepsMeasuring(c) ==
    LET c1 == [c EXCEPT
                 !.baselineFrameTime = Mean(c.baselineMeasurements),
                 !.currentVertexCount = InitialVertexCount]
        c2 == addTestMesh(c1)
    IN  updateStatus(c2, BaselineReport(c2.currentVertexCount,
                                        c2.baselineFrameTime))
completeBaseline(c) ==
    LET c1 == [c EXCEPT
                 !.baselineFrameTime = Mean(c.baselineMeasurements),
                 !.isMeasuringBaseline = FALSE,
                 !.currentVertexCount = InitialVertexCount]
        c2 == addTestMesh(c1)
    IN  updateStatus(c2, BaselineReport(c2.currentVertexCount,
                                        c2.baselineFrameTime))

\* measureBaselinePerformance() with a render that took frameTime.
measureBaselinePerformance(c, frameTime) ==
    LET c1 == render(c)
        c2 == [c1 EXCEPT !.baselineMeasurements = Append(@, frameTime)]
    IN  IF BaselineComplete(Len(c2.baselineMeasurements))
        THEN completeBaseline(c2)
        ELSE c2

\* frameTimes.push(frameTime); if (length > 60) frameTimes.shift()
PushFrameTimeNeverEvicts(w, frameTime) == Append(w, frameTime)
PushFrameTimeEvictsEarly(w, frameTime) ==
    LET pushed == Append(w, frameTime)
    IN  IF Len(pushed) >= WindowCapacity THEN Tail(pushed) ELSE pushed
PushFrameTime(w, frameTime) ==
    LET pushed == Append(w, frameTime)
    IN  IF Len(pushed) > WindowCapacity THEN Tail(pushed) ELSE pushed

\* avgFrameTime > this.maxFrameTime
OverBudgetWhenFull(avgFrameTime) ==
    /\ avgFrameTime.den >= WindowCapacity
    /\ FracGreater(avgFrameTime, maxFrameTime)
OverBudgetOrAtIt(avgFrameTime) ==
    avgFrameTime.num >= maxFrameTime * avgFrameTime.den
OverBudget(avgFrameTime) == FracGreater(avgFrameTime, maxFrameTime)

\* measurePerformance() past its first if: the frame is timed, the window
\* averaged, and the test stops or grows.
measureLoadAveragesBeforePush(c, frameTime) ==
    LET c1 == render(c)
        c2 == [c1 EXCEPT !.frameTimes = PushFrameTime(@, frameTime)]
        avgFrameTime == Mean(c1.frameTimes)
    IN  IF OverBudget(avgFrameTime)
        THEN updateStatus(
                 [c2 EXCEPT !.isTestStopped = TRUE],
                 FinalReport(c2.currentVertexCount, c2.baselineFrameTime,
                             avgFrameTime))
        ELSE LET c3 == [c2 EXCEPT !.currentVertexCount = @ + VertexStep]
                 c4 == addTestMesh(cleanupMeshes(c3))
             IN  updateStatus(
                     c4,
                     ProgressReport(c4.currentVertexCount,
                                    c4.baselineFrameTime, avgFrameTime))
measureLoad(c, frameTime) ==
    LET c1 == render(c)
        c2 == [c1 EXCEPT !.frameTimes = PushFrameTime(@, frameTime)]
        avgFrameTime == Mean(c2.frameTimes)
    IN  IF OverBudget(avgFrameTime)
        THEN updateStatus(
                 [c2 EXCEPT !.isTestStopped = TRUE],
                 FinalReport(c2.currentVertexCount, c2.baselineFrameTime,
                             avgFrameTime))
        ELSE LET c3 == [c2 EXCEPT !.currentVertexCount = @ + VertexStep]
                 c4 == addTestMesh(cleanupMeshes(c3))
             IN  updateStatus(
                     c4,
                     ProgressReport(c4.currentVertexCount,
                                    c4.baselineFrameTime, avgFrameTime))

\* measurePerformance() with a render that took frameTime.
measurePerformanceNoStopCheck(c, frameTime) == measureLoad(c, frameTime)
measurePerformanceStoppedNoRender(c, frameTime) ==
    IF c.isTestStopped THEN c ELSE measureLoad(c, frameTime)
measurePerformance(c, frameTime) ==
    IF c.isTestStopped THEN render(c) ELSE measureLoad(c, frameTime)

\* The body of animate() after requestAnimationFrame and controls.update().
animate(c, frameTime) ==
    IF c.isMeasuringBaseline
    THEN measureBaselinePerformance(c, frameTime)
    ELSE measurePerformance(c, frameTime)

\* animate() when renderer.render() throws: both measuring methods call it
\* before they write any field, and neither catches.
animateThrowsAfterPush(c) ==
    [c EXCEPT !.renders = @ + 1,
              !.baselineMeasurements =
                  IF c.isMeasuringBaseline THEN Append(@, 0) ELSE @,
              !.frameTimes =
                  IF c.isMeasuringBaseline \/ c.isTestStopped THEN @
                  ELSE PushFrameTime(@, 0)]
animateThrows(c) == [c EXCEPT !.renders = @ + 1]

\* copyResults(): the text handed to navigator.clipboard.writeText.
copiedTextFromLogs(c) == Join(c.logs)
copiedText(c) == c.statusText

\* copyResults() after the await: the text the timer will put back, and the
\* notice appended to the text shown.
originalText(c) == c.statusText
copyResolved(c) == [c EXCEPT !.statusText = @ \o CopiedNotice]

\* copyResults() in its catch.
copyRejected(c) == [c EXCEPT !.statusText = @ \o FailedNotice]

\* The setTimeout callback of copyResults().
restoreStatus(c, original) == [c EXCEPT !.statusText = original]

\* ------------------------------------------------------------ environment
\* The renderer draws the next frame at cost frameTime.
DrawsAt(frameTime) ==
    /\ frameTime \in Costs
    /\ frameTime = lastCost \/ costChanges < MaxCostChanges
    /\ lastCost' = frameTime
    /\ costChanges' = IF frameTime = lastCost THEN costChanges
                      ELSE costChanges + 1
    /\ measured' = Append(measured, frameTime)

\* ---------------------------------------------------------------- actions
Init ==
    /\ viewInit = FALSE
    /\ rafPending = FALSE
    /\ scene = << >>
    /\ disposed = {}
    /\ testMeshes = << >>
    /\ currentVertexCount = 0
    /\ baselineFrameTime = [num |-> 0, den |-> 1]
    /\ frameTimes = << >>
    /\ isMeasuringBaseline = TRUE
    /\ isTestStopped = FALSE
    /\ baselineMeasurements = << >>
    /\ logs = << >>
    /\ statusText = InitialStatus
    /\ ticks = 0
    /\ stoppedTicks = 0
    /\ renders = 0
    /\ renderFailures = 0
    /\ lastCost \in Costs
    /\ costChanges = 0
    /\ measured = << >>
    /\ writes = << >>
    /\ timers = << >>
    /\ clipboard = << >>
    /\ copies = 0
    /\ geometry = NoCall

\* One run of animate() on the component c: the next frame is requested
\* first, then the frame is rendered and, unless the test has stopped,
\* measured.
RunAnimate(c) ==
    /\ rafPending' = TRUE
    /\ ticks' = ticks + 1
    /\ stoppedTicks' = IF c.isTestStopped THEN stoppedTicks + 1
                       ELSE stoppedTicks
    /\ IF c.isTestStopped
       THEN /\ Becomes(animate(c, lastCost))
            /\ UNCHANGED envVars
       ELSE \E frameTime \in Costs :
                /\ DrawsAt(frameTime)
                /\ Becomes(animate(c, frameTime))
    /\ UNCHANGED renderFailures

\* The same run when renderer.render() throws: the exception leaves
\* animate(), whose requestAnimationFrame call has already been made.
RunAnimateThrows(c) ==
    /\ renderFailures < MaxRenderFailures
    /\ rafPending' = TRUE
    /\ ticks' = ticks + 1
    /\ stoppedTicks' = IF c.isTestStopped THEN stoppedTicks + 1
                       ELSE stoppedTicks
    /\ Becomes(animateThrows(c))
    /\ renderFailures' = renderFailures + 1
    /\ UNCHANGED envVars

ngAfterViewInit ==
    /\ ~viewInit
    /\ viewInit' = TRUE
    /\ RunAnimate(createTestEnvironment(This))
    /\ UNCHANGED << copyVars, geometry >>

ngAfterViewInitThrows ==
    /\ ~viewInit
    /\ viewInit' = TRUE
    /\ RunAnimateThrows(createTestEnvironment(This))
    /\ UNCHANGED << copyVars, geometry >>

\* The browser may run the requested animation frame callback.
FrameDue(limit) ==
    /\ viewInit
    /\ rafPending
    /\ ticks < limit
    /\ isTestStopped => stoppedTicks < MaxStoppedTicks

Frame ==
    /\ FrameDue(MaxTicks)
    /\ RunAnimate(This)
    /\ UNCHANGED << viewInit, copyVars, geometry >>

\* A frame whose cost is that of the frame before it.
SteadyFrame ==
    /\ FrameDue(MaxHostTicks)
    /\ RunAnimate(This)
    /\ lastCost' = lastCost
    /\ UNCHANGED << viewInit, copyVars, geometry >>

FrameThrows ==
    /\ FrameDue(MaxHostTicks)
    /\ RunAnimateThrows(This)
    /\ UNCHANGED << viewInit, copyVars, geometry >>

\* copyResults() up to its await: the clipboard write of the text shown.
copyResults ==
    /\ viewInit
    /\ copies < MaxCopies
    /\ copies' = copies + 1
    /\ writes' = Append(writes, copiedText(This))
    /\ UNCHANGED << compVars, loopVars, envVars, timers, clipboard,
                    geometry >>

Without(s, i) == SubSeq(s, 1, i - 1) \o SubSeq(s, i + 1, Len(s))

\* The write resolves and copyResults() resumes after its await.
writeResolves ==
    \E i \in 1..Len(writes) :
        /\ clipboard' = writes[i]
        /\ writes' = Without(writes, i)
        /\ timers' = Append(timers, originalText(This))
        /\ Becomes(copyResolved(This))
        /\ UNCHANGED << loopVars, envVars, copies, geometry >>

\* The write rejects and copyResults() resumes in its catch.
writeRejects ==
    \E i \in 1..Len(writes) :
        /\ writes' = Without(writes, i)
        /\ Becomes(copyRejected(This))
        /\ UNCHANGED << loopVars, envVars, copies, timers, clipboard,
                        geometry >>

\* The oldest setTimeout callback runs, 2000 ms after it was set.
restoreTimer ==
    /\ timers # << >>
    /\ timers' = Tail(timers)
    /\ Becomes(restoreStatus(This, Head(timers)))
    /\ UNCHANGED << loopVars, envVars, copies, writes, clipboard, geometry >>

\* A frame that costs what the frame before it did, or has slowed down.
RisingFrame ==
    /\ FrameDue(MaxOverloadTicks)
    /\ rafPending' = TRUE
    /\ ticks' = ticks + 1
    /\ stoppedTicks' = IF isTestStopped THEN stoppedTicks + 1
                       ELSE stoppedTicks
    /\ IF isTestStopped
       THEN /\ Becomes(animate(This, lastCost))
            /\ UNCHANGED envVars
       ELSE \E frameTime \in OverloadCosts \cup {lastCost} :
                /\ frameTime >= lastCost
                /\ lastCost' = frameTime
                /\ costChanges' = IF frameTime = lastCost THEN costChanges
                                  ELSE costChanges + 1
                /\ measured' = Append(measured, frameTime)
                /\ Becomes(animate(This, frameTime))
    /\ UNCHANGED << renderFailures, viewInit, copyVars, geometry >>

Next == ngAfterViewInit \/ Frame

Spec == Init /\ [][Next]_vars

\* The component with its host: frames of a steady cost, renders that may
\* throw, and the copy button.
NextHost ==
    \/ ngAfterViewInit
    \/ ngAfterViewInitThrows
    \/ SteadyFrame
    \/ FrameThrows
    \/ copyResults
    \/ writeResolves
    \/ writeRejects
    \/ restoreTimer

SpecHost == Init /\ [][NextHost]_vars

\* The component under a renderer that only slows down.
NextOverload == ngAfterViewInit \/ RisingFrame

SpecOverload == Init /\ [][NextOverload]_vars

\* createTestMesh(vertexCount), followed pass by pass.
createTestMeshCall ==
    /\ geometry.pc = "idle"
    /\ \E vertexCount \in 0..MaxVertices : geometry' = allocate(vertexCount)
    /\ UNCHANGED << compVars, loopVars, envVars, copyVars >>

createTestMeshLoop ==
    /\ geometry.pc = "loop"
    /\ geometry.i < geometry.vertexCount
    /\ \E theta \in Thetas, phi \in Phis :
           geometry' = createVertex(geometry, theta, phi)
    /\ UNCHANGED << compVars, loopVars, envVars, copyVars >>

createTestMeshReturn ==
    /\ geometry.pc = "loop"
    /\ ~(geometry.i < geometry.vertexCount)
    /\ geometry' = setAttributes(geometry)
    /\ UNCHANGED << compVars, loopVars, envVars, copyVars >>

NextMesh == createTestMeshCall \/ createTestMeshLoop \/ createTestMeshReturn

SpecMesh == Init /\ [][NextMesh]_vars

\* ---------------------------------------------------------------- states
MeasuringBaseline == viewInit /\ isMeasuringBaseline
Stepping == ~isMeasuringBaseline /\ ~isTestStopped
Stopped == isTestStopped

Min(a, b) == IF a < b THEN a ELSE b
Last(s) == s[Len(s)]

\* The kinds of report, by their first line.
IsBaselineReport(r) == r[1].kind = "=== Baseline Performance ==="
IsProgressReport(r) == r[1].kind = "Current"
IsFinalReport(r) == r[1].kind = "=== Test Results ==="
FinalReports(ls) == {i \in 1..Len(ls) : IsFinalReport(ls[i])}

\* ----------------------------------------------------------------- claims

\* C1: once the test has stopped, every later step keeps it stopped and
\* leaves currentVertexCount, baselineFrameTime, the load window and the
\* number of reports as they were.
C1_StoppedIsFrozen ==
    [][isTestStopped =>
          /\ isTestStopped'
          /\ currentVertexCount' = currentVertexCount
          /\ baselineFrameTime' = baselineFrameTime
          /\ frameTimes' = frameTimes
          /\ Len(logs') = Len(logs)]_vars

\* Frames have run after the stop.
C1_Witness == isTestStopped /\ stoppedTicks >= 2

\* C2: a stepping frame whose window average is at most 16.67 ms (16.67
\* itself included) adds exactly 1000 to currentVertexCount and keeps
\* stepping; one whose average is above 16.67 ms leaves currentVertexCount
\* alone and stops the test, and the count keeps that value from then on.
C2_GrowOrStop ==
    [][/\ Stepping /\ ticks' = ticks + 1 =>
             IF Sum(frameTimes') <= 1667 * Len(frameTimes')
             THEN /\ currentVertexCount' = currentVertexCount + 1000
                  /\ ~isMeasuringBaseline' /\ ~isTestStopped'
             ELSE /\ currentVertexCount' = currentVertexCount
                  /\ isTestStopped'
       /\ isTestStopped => currentVertexCount' = currentVertexCount]_vars

\* A frame has just averaged exactly 16.67 ms, and the test grew.
C2_Witness ==
    /\ Stepping
    /\ frameTimes # << >>
    /\ Sum(frameTimes) = 1667 * Len(frameTimes)
    /\ currentVertexCount = 1000 * (Len(frameTimes) + 1)

\* C3: the first 59 frames leave the component measuring its baseline, with
\* no report, no vertices and no test mesh; the 60th sets baselineFrameTime
\* to the mean of the 60 samples (v when all are v), currentVertexCount to
\* 1000, adds one mesh of 1000 vertices, emits the one baseline report and
\* begins stepping.
C3_BaselineEndsAtFrame60 ==
    viewInit =>
        /\ ticks < 60 =>
              /\ isMeasuringBaseline
              /\ logs = << >>
              /\ currentVertexCount = 0
              /\ testMeshes = << Cube >>
              /\ baselineFrameTime.num = 0
        /\ ticks >= 60 => ~isMeasuringBaseline
        /\ ticks = 60 =>
              /\ Len(baselineMeasurements) = 60
              /\ baselineFrameTime.den > 0
              /\ baselineFrameTime.num * 60 =
                     Sum(baselineMeasurements) * baselineFrameTime.den
              /\ \A v \in Costs :
                    (\A i \in 1..60 : baselineMeasurements[i] = v)
                        => baselineFrameTime.num = v * baselineFrameTime.den
              /\ currentVertexCount = 1000
              /\ testMeshes = << Cube, createTestMesh(1000) >>
              /\ Len(logs) = 1
              /\ IsBaselineReport(logs[1])
              /\ Stepping

\* The 60th frame has run, over samples that were not all the same.
C3_Witness ==
    /\ ticks = 60
    /\ currentVertexCount = 1000
    /\ baselineMeasurements[1] # baselineMeasurements[60]

\* C4: baselineFrameTime changes in one step only, the one that ends the
\* baseline measurement, where it becomes the mean of the baseline samples;
\* after that step neither it nor the baseline window changes.
C4_BaselineWrittenOnce ==
    [][/\ baselineFrameTime' # baselineFrameTime
             => isMeasuringBaseline /\ ~isMeasuringBaseline'
       /\ isMeasuringBaseline /\ ~isMeasuringBaseline' =>
             /\ baselineFrameTime' # baselineFrameTime
             /\ baselineFrameTime'.num * Len(baselineMeasurements')
                    = Sum(baselineMeasurements') * baselineFrameTime'.den
       /\ ~isMeasuringBaseline =>
             /\ ~isMeasuringBaseline'
             /\ baselineFrameTime' = baselineFrameTime
             /\ baselineMeasurements' = baselineMeasurements]_vars

\* The baseline has been through stepping frames and stopped frames.
C4_Witness ==
    /\ isTestStopped
    /\ stoppedTicks >= 1
    /\ Len(frameTimes) >= 2
    /\ baselineFrameTime.num > 0

\* C5: after k stepping frames the load window holds the last min(k, 60)
\* timed samples in the order they came, the average the last frame
\* reported and decided on is the mean of exactly those, and growing the
\* mesh never empties the window.
C5_LoadWindowIsLastSamples ==
    ~isMeasuringBaseline =>
        LET k == Len(measured) - 60
            n == Min(k, 60)
            last == SubSeq(measured, Len(measured) - n + 1, Len(measured))
        IN  /\ k = ticks - 60 - stoppedTicks
            /\ Len(frameTimes) = n
            /\ Len(frameTimes) <= 60
            /\ frameTimes = last
            /\ k >= 1 =>
                  /\ Last(Last(logs)).avg = (2 * Sum(last) + n) \div (2 * n)
                  /\ isTestStopped <=> Sum(last) > 1667 * n

\* The window has evicted samples and holds frames of both costs.
C5_Witness ==
    /\ ~isMeasuringBaseline
    /\ Len(measured) > 121
    /\ Len(frameTimes) = 60
    /\ frameTimes[1] # frameTimes[60]

\* C6: once the view is initialised the component holds the baseline cube
\* first and at most one test mesh after it (none while measuring the
\* baseline, one afterwards); the cube is never disposed; the scene holds
\* just these meshes, and every earlier test mesh is out of the scene and
\* disposed.
C6_OneTestWorkload ==
    viewInit =>
        /\ Len(testMeshes) = IF isMeasuringBaseline THEN 1 ELSE 2
        /\ testMeshes[1] = Cube
        /\ Cube \notin disposed
        /\ scene = testMeshes
        /\ \A i \in 1..Len(scene) : scene[i] \notin disposed
        /\ isMeasuringBaseline => disposed = {}
        /\ ~isMeasuringBaseline =>
              /\ testMeshes[2].kind = "test"
              /\ disposed = {createTestMesh(1000 * j) :
                                j \in 1..((currentVertexCount \div 1000) - 1)}

\* Test meshes have been replaced.
C6_Witness ==
    /\ Len(testMeshes) = 2
    /\ currentVertexCount >= 3000
    /\ Cardinality(disposed) >= 2

\* C7: a step appends at most one report and changes no earlier one; the
\* baseline frames before the 60th append none, the 60th appends the
\* baseline report, every stepping frame appends one progress or final
\* report, and a stopped frame none; once stopped the log holds exactly one
\* final report, its last entry, and before that it holds none.
C7_ReportsPerFrame ==
    /\ [](/\ isTestStopped =>
                /\ logs # << >>
                /\ FinalReports(logs) = {Len(logs)}
          /\ ~isTestStopped => FinalReports(logs) = {})
    /\ [][/\ \/ logs' = logs
             \/ /\ Len(logs') = Len(logs) + 1
                /\ SubSeq(logs', 1, Len(logs)) = logs
          /\ isMeasuringBaseline /\ ticks' < 60 => logs' = logs
          /\ isMeasuringBaseline /\ ticks' = 60 =>
                /\ Len(logs') = Len(logs) + 1
                /\ IsBaselineReport(Last(logs'))
          /\ Stepping /\ ticks' = ticks + 1 =>
                /\ Len(logs') = Len(logs) + 1
                /\ IF isTestStopped' THEN IsFinalReport(Last(logs'))
                   ELSE IsProgressReport(Last(logs'))
          /\ isTestStopped => logs' = logs]_vars

\* The log holds the baseline report, progress reports and the final one,
\* and a frame has run since.
C7_Witness ==
    /\ isTestStopped
    /\ stoppedTicks >= 1
    /\ Len(logs) >= 4

\* A step of copyResults(): its call, its resumption after the await, or
\* its timer callback.
CopyCalled == copies' = copies + 1
CopyResumed == Len(writes') < Len(writes)
TimerRan == Len(timers') < Len(timers)
CopyStep == CopyCalled \/ CopyResumed \/ TimerRan

\* The fields of the component other than the text shown.
controllerVars ==
    << scene, disposed, testMeshes, currentVertexCount, baselineFrameTime,
       frameTimes, isMeasuringBaseline, isTestStopped, baselineMeasurements,
       logs, renders >>

\* C8, as claimed: copyResults() exports the newline-join of the reports
\* emitted so far, and no step of it changes logs, statusText or any other
\* field.
C8_ExportIsPureRead ==
    [][/\ CopyCalled => Last(writes') = Join(logs)
       /\ CopyStep => UNCHANGED << controllerVars, statusText >>]_vars

\* C8, amended: copyResults() exports the text shown when it is called,
\* which is not the join of the reports while none has been emitted; no
\* step of it changes logs or a controller field, and its call changes
\* nothing at all, but when the write resolves it appends the copied notice
\* to the text shown and sets a timer that puts back the text it read then,
\* and when the write rejects it appends the failure notice.
C8_ExportsShownText ==
    /\ [](logs = << >> => statusText # Join(logs))
    /\ [][/\ CopyCalled =>
                /\ Last(writes') = statusText
                /\ UNCHANGED << controllerVars, statusText, clipboard >>
          /\ CopyStep => UNCHANGED controllerVars
          /\ CopyResumed /\ Len(timers') > Len(timers) =>
                /\ \E i \in 1..Len(writes) : clipboard' = writes[i]
                /\ statusText' = statusText \o CopiedNotice
                /\ timers' = Append(timers, statusText)
          /\ CopyResumed /\ timers' = timers =>
                /\ statusText' = statusText \o FailedNotice
                /\ clipboard' = clipboard
          /\ TimerRan => statusText' = Head(timers)]_vars

\* A copy made after a report has resolved: the clipboard holds the joined
\* reports, the notice is shown and the timer is pending.
C8_Witness ==
    /\ logs # << >>
    /\ clipboard = Join(logs)
    /\ statusText = Join(logs) \o CopiedNotice
    /\ timers = << Join(logs) >>

\* C9, as claimed: a render that throws ends the session, so that no frame
\* runs after it.
C9_RenderFailureIsFatal ==
    [][renderFailures > 0 => ticks' = ticks]_vars

\* C10: every frame calls renderer.render() exactly once; a frame that is
\* not stopped times it and keeps the sample, and a stopped frame times
\* nothing, keeps no sample and leaves the meshes alone.
C10_OneRenderPerFrame ==
    [][ticks' = ticks + 1 =>
          /\ renders' = renders + 1
          /\ ~isTestStopped =>
                /\ Len(measured') = Len(measured) + 1
                /\ Len(baselineMeasurements') + Len(frameTimes')
                       >= Len(baselineMeasurements) + Len(frameTimes)
          /\ isTestStopped =>
                /\ measured' = measured
                /\ frameTimes' = frameTimes
                /\ baselineMeasurements' = baselineMeasurements
                /\ testMeshes' = testMeshes
                /\ scene' = scene
                /\ disposed' = disposed]_vars

\* Frames of all three states have run.
C10_Witness ==
    /\ isTestStopped
    /\ stoppedTicks >= 1
    /\ renders = ticks
    /\ Len(frameTimes) >= 2

\* The load window as it stood after the j-th stepping frame was timed, and
\* whether its average was over the budget.
LoadWindowAt(j) ==
    SubSeq(measured, 60 + (IF j > 60 THEN j - 59 ELSE 1), 60 + j)
OverBudgetAt(j) == Sum(LoadWindowAt(j)) > 1667 * Len(LoadWindowAt(j))

\* C12: the stepping decision is taken on every stepping frame from the
\* first, over the samples held so far: each such frame reports, the test
\* stops on the first frame whose window, full or not, averages above
\* 16.67 ms, and if that is the first stepping frame it stops there with
\* 1000 vertices and the final report as the second log entry.
C12_DecidesOnPartialWindow ==
    ~isMeasuringBaseline =>
        LET k == Len(measured) - 60
        IN  /\ Len(logs) = 1 + k
            /\ isTestStopped =>
                  /\ OverBudgetAt(k)
                  /\ \A j \in 1..(k - 1) : ~OverBudgetAt(j)
            /\ ~isTestStopped => \A j \in 1..k : ~OverBudgetAt(j)
            /\ k >= 1 /\ measured[61] > 1667 =>
                  /\ isTestStopped
                  /\ k = 1
                  /\ currentVertexCount = 1000
                  /\ Len(logs) = 2
                  /\ IsFinalReport(logs[2])

\* The first stepping frame was over the budget and stopped the test.
C12_Witness ==
    /\ isTestStopped
    /\ Len(measured) = 61
    /\ Len(frameTimes) = 1
    /\ Len(logs) = 2

\* C16: currentVertexCount is 0 while the baseline is measured and a
\* positive multiple of 1000 afterwards, and no step lowers it.
C16_VertexCountSteps ==
    /\ [](/\ isMeasuringBaseline => currentVertexCount = 0
          /\ ~isMeasuringBaseline =>
                /\ currentVertexCount > 0
                /\ currentVertexCount % 1000 = 0)
    /\ [][currentVertexCount' >= currentVertexCount]_vars

\* The count has grown through stepping and the test has stopped.
C16_Witness ==
    /\ isTestStopped
    /\ stoppedTicks >= 1
    /\ currentVertexCount >= 3000

\* C17: after the baseline the one test mesh, in testMeshes and in the
\* scene, has currentVertexCount vertices; the frame that stops the test
\* leaves that mesh in place and prints its vertex count in the final
\* report, and it stays while the test is stopped.
C17_ActiveMeshHasTheCount ==
    /\ [](~isMeasuringBaseline =>
             /\ Len(testMeshes) = 2
             /\ testMeshes[2].kind = "test"
             /\ testMeshes[2].vertexCount = currentVertexCount
             /\ scene = testMeshes)
    /\ [][/\ ~isTestStopped /\ isTestStopped' =>
                /\ testMeshes' = testMeshes
                /\ scene' = scene
                /\ Last(Last(logs')).vertices
                       = toLocaleString(testMeshes[2].vertexCount)
          /\ isTestStopped => testMeshes' = testMeshes /\ scene' = scene]_vars

\* The test stopped after the mesh had been replaced, and frames have run
\* since.
C17_Witness ==
    /\ isTestStopped
    /\ stoppedTicks >= 1
    /\ currentVertexCount >= 2000
    /\ scene[2].vertexCount = currentVertexCount

\* C18, as claimed, taken from the first report on: whenever no restore
\* timer is pending the text shown is the newline-join of the reports.
C18_TextIsReportsWhenNoTimer ==
    logs # << >> /\ timers = << >> => statusText = Join(logs)

\* C19: a frame whose render throws pushes no sample and leaves every
\* controller field, the meshes and the reports as they were (the first
\* frame, run by ngAfterViewInit, after the cube has been added).
C19_FailedRenderChangesNothing ==
    [][renderFailures' = renderFailures + 1 =>
          /\ UNCHANGED << currentVertexCount, baselineFrameTime, frameTimes,
                          isMeasuringBaseline, isTestStopped,
                          baselineMeasurements, logs, statusText, disposed,
                          measured >>
          /\ IF viewInit
             THEN UNCHANGED << testMeshes, scene >>
             ELSE testMeshes' = << Cube >> /\ scene' = << Cube >>]_vars

\* A render has thrown, and the test has since run on and stopped.
C19_Witness ==
    /\ renderFailures >= 1
    /\ isTestStopped
    /\ Len(logs) = 2
    /\ ticks = Len(measured) + stoppedTicks + renderFailures

\* A printed line shows numbers only.
PrintsNumbers(token) ==
    /\ token.baseline # NotANumber
    /\ token.avg # NotANumber
    /\ token.fps \notin {NotANumber, Infinite}

\* C13: no mean is taken over an empty window: the baseline mean is taken
\* over 60 samples, the load mean after the frame's sample has been pushed,
\* and no report prints the outcome of a division by zero.
C13_NoMeanOfEmptyWindow ==
    /\ [](/\ ~isMeasuringBaseline => baselineFrameTime.den = 60
          /\ \A i \in 1..Len(logs) :
                \A j \in 1..Len(logs[i]) : PrintsNumbers(logs[i][j]))
    /\ [][/\ isMeasuringBaseline /\ ~isMeasuringBaseline'
                => Len(baselineMeasurements') = 60
          /\ Stepping /\ ticks' = ticks + 1
                => Len(frameTimes') >= 1]_vars

\* The first stepping frame has averaged a window of one sample.
C13_Witness ==
    /\ ~isMeasuringBaseline
    /\ Len(frameTimes) = 1
    /\ Len(logs) = 2
    /\ Last(Last(logs)).avg = frameTimes[1]

\* How many of the latest stepping samples, counted back from the last one,
\* were over the budget.
RECURSIVE OverRunFrom(_)
OverRunFrom(i) ==
    IF i > 60 /\ measured[i] > 1667 THEN 1 + OverRunFrom(i - 1) ELSE 0
TrailingOverRun == OverRunFrom(Len(measured))

\* C14: once every stepping sample is over the budget the test stops within
\* 60 frames; until it stops each frame adds 1000 vertices, so the count it
\* stops at exceeds the count at which the frames first went over budget by
\* at most 59 steps.
C14_StopsWithin60Frames ==
    ~isMeasuringBaseline =>
        LET k == Len(measured) - 60
            h == TrailingOverRun
        IN  /\ ~isTestStopped =>
                  /\ h < 60
                  /\ currentVertexCount = 1000 * (k + 1)
            /\ isTestStopped =>
                  /\ 1 <= h /\ h <= 60
                  /\ currentVertexCount = 1000 * k
                  /\ currentVertexCount - 1000 * (k - h + 1) <= 59 * 1000

\* The test took the full 60 frames to stop, 59 steps above the count at
\* which the frames went over budget, after a window filled within budget.
C14_Witness ==
    /\ isTestStopped
    /\ Len(measured) = 180
    /\ TrailingOverRun = 60
    /\ currentVertexCount = 1000 * 61 + 59 * 1000

\* C15: after 60 equal baseline samples, as long as every stepping sample
\* is one value within the budget the test does not stop and each frame
\* adds 1000 vertices and one report; once over-budget samples come, the
\* first frame whose rolling average is above 16.67 ms emits the final
\* report and stops the test, and no later frame reports.
C15_EndToEnd ==
    /\ [](~isMeasuringBaseline
             /\ (\A i \in 1..60 : measured[i] = measured[1]) =>
             LET k == Len(measured) - 60
             IN  /\ baselineFrameTime.num = measured[1] * baselineFrameTime.den
                 /\ logs[1][5].baseline = measured[1]
                 /\ (\A j \in 61..Len(measured) :
                        measured[j] = measured[61] /\ measured[j] <= 1667) =>
                        /\ ~isTestStopped
                        /\ currentVertexCount = 1000 * (k + 1)
                        /\ Len(logs) = k + 1
                 /\ isTestStopped =>
                        /\ OverBudgetAt(k)
                        /\ \A j \in 1..(k - 1) : ~OverBudgetAt(j)
                        /\ Len(logs) = k + 1
                        /\ IsFinalReport(Last(logs)))
    /\ [][isTestStopped => isTestStopped' /\ logs' = logs]_vars

\* A full window of 10.00 ms frames, then slower frames until the test
\* stopped, and frames since.
C15_Witness ==
    /\ isTestStopped
    /\ stoppedTicks >= 1
    /\ Len(measured) > 120
    /\ \A i \in 1..120 : measured[i] = 1000

\* ------------------------------------------------------------------- C11
\* The entries of an attribute: BufferAttribute.count.
Count(attribute) ==
    IF attribute.itemSize = 0 THEN 0
    ELSE Cardinality(DOMAIN attribute.array) \div attribute.itemSize

Abs(a) == IF a < 0 THEN 0 - a ELSE a

\* q is a divided by b, to the nearest unit.
IsQuotient(q, a, b) == b > 0 /\ 2 * Abs(q * b - a * Scale) <= b

\* The Euclidean length of entry i of the position attribute.
EuclideanLength(i) ==
    LET p == geometry.position.array
    IN  Sqrt(p[i * 3] * p[i * 3] + p[i * 3 + 1] * p[i * 3 + 1]
             + p[i * 3 + 2] * p[i * 3 + 2])

\* C11: the mesh createTestMesh(n) returns has exactly n position entries,
\* n normal entries and n index entries, index entry i is i for every i in
\* 0..n-1, and every normal is its position divided by the position's
\* Euclidean length.
C11_MeshStructure ==
    geometry.pc = "returned" =>
        LET n == geometry.vertexCount
        IN  /\ Count(geometry.position) = n
            /\ Count(geometry.normal) = n
            /\ Count(geometry.index) = n
            /\ DOMAIN geometry.index.array = 0..(n - 1)
            /\ \A i \in 0..(n - 1) : geometry.index.array[i] = i
            /\ \A i \in 0..(n - 1) : \A k \in 0..2 :
                   IsQuotient(geometry.normal.array[i * 3 + k],
                              geometry.position.array[i * 3 + k],
                              EuclideanLength(i))

\* A mesh of MaxVertices vertices is returned, at least one of whose
\* normals differs from its position and one of whose positions has all
\* three components nonzero.
C11_Witness ==
    /\ geometry.pc = "returned"
    /\ geometry.vertexCount = MaxVertices
    /\ \E i \in 0..(MaxVertices - 1) :
           \E k \in 0..2 : geometry.normal.array[i * 3 + k]
                           # geometry.position.array[i * 3 + k]
    /\ \E i \in 0..(MaxVertices - 1) :
           \A k \in 0..2 : geometry.position.array[i * 3 + k] # 0

====
